---- MODULE Spec2Model ----
(***************************************************************************)
(* PageRank estimators of pagerank.py: transition_model, sample_pagerank   *)
(* and iterate_pagerank, each modelled as one call on a corpus.            *)
(*                                                                         *)
(* Numbers are exact rationals <<numerator, denominator>> in lowest terms  *)
(* with a positive denominator; the Python floats are modelled by the      *)
(* real numbers they approximate.  Pages are named by their position in    *)
(* the insertion order of the corpus dict: corpus.keys() iterates 1..N.    *)
(***************************************************************************)
EXTENDS Integers, FiniteSets, Sequences, TLC

\* Largest number of pages of a corpus.
MaxPages == 3
\* Largest sample count n given to sample_pagerank.
MaxN == 2

-----------------------------------------------------------------------------
(* Exact rational arithmetic. *)

RECURSIVE GCD(_, _)
GCD(a, b) == IF b = 0 THEN a ELSE GCD(b, a % b)

Abs(x) == IF x < 0 THEN -x ELSE x

Rational == Int \X Int

\* the fraction num/den in lowest terms, for den # 0
Fraction[num \in Int, den \in Int] ==
    CHOOSE f \in {<<(s * num) \div g, (s * den) \div g>> :
                    g \in {GCD(Abs(num), Abs(den))},
                    s \in {IF den < 0 THEN -1 ELSE 1}} : TRUE

Rat(num, den) == Fraction[num, den]

Q(k) == <<k, 1>>
Zero == Q(0)
One == Q(1)

\* x + y over the least common denominator l
Sum[x \in Rational, y \in Rational] ==
    CHOOSE f \in {Rat(x[1] * (l \div x[2]) + y[1] * (l \div y[2]), l) :
                    l \in {(x[2] \div GCD(x[2], y[2])) * y[2]}} : TRUE

Product[x \in Rational, y \in Rational] ==
    CHOOSE f \in {Rat((x[1] \div g1) * (y[1] \div g2),
                        (x[2] \div g2) * (y[2] \div g1)) :
                    g1 \in {GCD(Abs(x[1]), y[2])},
                    g2 \in {GCD(Abs(y[1]), x[2])}} : TRUE

Less[x \in Rational, y \in Rational] ==
    \E g \in {GCD(x[2], y[2])} :
        x[1] * (y[2] \div g) < y[1] * (x[2] \div g)

Inverse[y \in Rational] == Rat(y[2], y[1])

Magnitude[x \in Rational] == <<Abs(x[1]), x[2]>>

Larger[x \in Rational, y \in Rational] == IF Less[x, y] THEN y ELSE x

RAdd(x, y) == Sum[x, y]

RNeg(x) == Product[Q(-1), x]

RSub(x, y) == Sum[x, RNeg(y)]

RMul(x, y) == Product[x, y]

\* x / y for y # 0
RDiv(x, y) == Product[x, Inverse[y]]

RLt(x, y) == Less[x, y]

RLe(x, y) == Less[y, x] = FALSE

RAbs(x) == Magnitude[x]

\* Python's max(x, y): y only when it is strictly larger
RMax(x, y) == Larger[x, y]

\* sum of the values f[k] for k in S
RECURSIVE RSumOver(_, _)
RSumOver(f, S) ==
    IF S = {} THEN Zero
    ELSE LET k == CHOOSE k \in S : TRUE
         IN  RAdd(f[k], RSumOver(f, S \ {k}))

\* sum of the values of a dict
RSum(f) == CHOOSE t \in {RSumOver(g, DOMAIN g) : g \in {f}} : TRUE

-----------------------------------------------------------------------------
(* Inputs. *)

\* what crawl() can return for a set of pages K: every link is a page of K,
\* no page links to itself
Corpora(K) == {c \in [K -> SUBSET K] : \A k \in K : k \notin c[k]}

\* the program's DAMPING, 0.85
DAMPING == <<17, 20>>
\* damping factors inside (0, 1) for each function; the iteration is
\* explored with factors whose ranks stay in the range of machine integers
\* until convergence
ValidDamping ==
    [transition_model |-> {<<1, 2>>, DAMPING},
     sample_pagerank  |-> {DAMPING},
     iterate_pagerank |-> {<<1, 10>>, <<1, 4>>}]
\* damping factors outside (0, 1)
InvalidDamping ==
    [transition_model |-> {<<0, 1>>, <<1, 1>>, <<-1, 2>>, <<3, 2>>},
     sample_pagerank  |-> {<<0, 1>>, <<1, 1>>, <<-1, 2>>, <<3, 2>>},
     iterate_pagerank |-> {<<0, 1>>, <<-1, 2>>}]

Calls == {"transition_model", "sample_pagerank", "iterate_pagerank"}

\* convergence threshold of the while loop and the initial max_diff
Threshold == <<1, 1000>>
InitialMaxDiff == <<11, 10000>>

VARIABLES
    corpus,          \* dict page -> set of linked pages
    damping_factor,
    call,            \* the function that was called
    page,            \* transition_model's page argument (0: not used)
    n,               \* sample_pagerank's sample count (0: not used)
    pc,              \* position in the called function
    prob,            \* sample_pagerank: current transition distribution
    sample_dist,     \* sample_pagerank: visit counters, then frequencies
    i,               \* sample_pagerank: loop counter
    new_prob,        \* iterate_pagerank: ranks being written
    prev_prob,       \* iterate_pagerank: snapshot of the previous pass
    max_diff,        \* iterate_pagerank: largest change of the pass
    p,               \* iterate_pagerank: next page of the for loop
    result,          \* the returned dict, once pc = "returned"
    err              \* the exception raised, once pc = "raised"

vars == <<corpus, damping_factor, call, page, n, pc, prob, sample_dist, i,
          new_prob, prev_prob, max_diff, p, result, err>>

sampleVars == <<prob, sample_dist, i>>
iterVars == <<new_prob, prev_prob, max_diff, p>>
inputVars == <<damping_factor, call, page, n>>

Locals ==
    /\ pc = "start"
    /\ prob = <<>>
    /\ sample_dist = <<>>
    /\ i = 0
    /\ new_prob = <<>>
    /\ prev_prob = <<>>
    /\ max_diff = Zero
    /\ p = 0
    /\ result = <<>>
    /\ err = "none"

\* a call within the contract: non-empty corpus, page a key, 0 < d < 1, n >= 1
Init ==
    /\ \E N \in 1..MaxPages : corpus \in Corpora(1..N)
    /\ call \in Calls
    /\ damping_factor \in ValidDamping[call]
    /\ page \in IF call = "transition_model" THEN DOMAIN corpus ELSE {0}
    /\ n \in IF call = "sample_pagerank" THEN 1..MaxN ELSE {0}
    /\ Locals

\* any call: the corpus may be empty, the page absent, the damping invalid
InitAny ==
    /\ \E N \in 0..MaxPages : corpus \in Corpora(1..N)
    /\ call \in Calls
    /\ damping_factor \in ValidDamping[call] \cup InvalidDamping[call]
    /\ page \in IF call = "transition_model" THEN 1..MaxPages ELSE {0}
    /\ n \in IF call = "sample_pagerank" THEN 1..MaxN ELSE {0}
    /\ Locals

-----------------------------------------------------------------------------
(* transition_model *)

\* transition_model with the random jump left out for the linked pages
transition_model_linked_only(c, pg, d) ==
    LET total_pages == Cardinality(DOMAIN c)
        num_links == Cardinality(c[pg])
    IN  IF num_links = 0
        THEN [k \in DOMAIN c |-> RDiv(One, Q(total_pages))]
        ELSE [k \in DOMAIN c |->
                IF k \in c[pg]
                THEN RDiv(d, Q(num_links))
                ELSE RDiv(RSub(One, d), Q(total_pages))]

\* transition_model without the branch for a page without links
transition_model_no_dangling(c, pg, d) ==
    LET total_pages == Cardinality(DOMAIN c)
        num_links == Cardinality(c[pg])
    IN  [k \in DOMAIN c |->
            IF k \in c[pg]
            THEN RAdd(RDiv(RSub(One, d), Q(total_pages)),
                      RDiv(d, Q(num_links)))
            ELSE RDiv(RSub(One, d), Q(total_pages))]

transition_model(c, pg, d) ==
    LET total_pages == Cardinality(DOMAIN c)
        num_links == Cardinality(c[pg])
    IN  IF num_links = 0
        THEN [k \in DOMAIN c |-> RDiv(One, Q(total_pages))]
        ELSE [k \in DOMAIN c |->
                IF k \in c[pg]
                THEN RAdd(RDiv(RSub(One, d), Q(total_pages)),
                          RDiv(d, Q(num_links)))
                ELSE RDiv(RSub(One, d), Q(total_pages))]

\* the call transition_model(corpus, page, damping_factor); corpus[page]
\* raises KeyError for a page that is no key
TransitionModel ==
    /\ call = "transition_model"
    /\ pc = "start"
    /\ IF page \in DOMAIN corpus
       THEN /\ result' = transition_model(corpus, page, damping_factor)
            /\ pc' = "returned"
            /\ err' = err
       ELSE /\ err' = "KeyError"
            /\ pc' = "raised"
            /\ result' = result
    /\ UNCHANGED <<corpus, inputVars, sampleVars, iterVars>>

-----------------------------------------------------------------------------
(* sample_pagerank *)

\* the pages random.choices(list(corpus.keys()), weights=list(w.values()))
\* can return: a page of positive weight; with a negative weight the
\* cumulative weights are not sorted and the bisection may stop anywhere
choices(w) ==
    IF \E k \in DOMAIN w : w[k][1] < 0
    THEN DOMAIN w
    ELSE {k \in DOMAIN w : w[k][1] > 0}

\* lines 86-92: uniform distribution and zeroed counters
SampleInit ==
    /\ call = "sample_pagerank"
    /\ pc = "start"
    /\ LET total_pages == Cardinality(DOMAIN corpus)
       IN  /\ prob' = [k \in DOMAIN corpus |-> RDiv(One, Q(total_pages))]
           /\ sample_dist' = [k \in DOMAIN corpus |-> 0]
    /\ i' = 0
    /\ pc' = "draw"
    /\ UNCHANGED <<corpus, inputVars, iterVars, result, err>>

\* SampleDraw that does not tally the first page of the walk
SampleDraw_first_untallied ==
    /\ pc = "draw"
    /\ i < n
    /\ IF DOMAIN corpus = {}
       THEN /\ err' = "IndexError"
            /\ pc' = "raised"
            /\ UNCHANGED <<prob, sample_dist, i>>
       ELSE /\ \E current_page \in choices(prob) :
                /\ sample_dist' =
                     IF i = 0 THEN sample_dist
                     ELSE [sample_dist EXCEPT ![current_page] = @ + 1]
                /\ prob' = transition_model(corpus, current_page,
                                            damping_factor)
            /\ i' = i + 1
            /\ UNCHANGED <<pc, err>>
    /\ UNCHANGED <<corpus, inputVars, iterVars, result>>

\* lines 94-97: one iteration of the sampling loop; random.choices raises
\* IndexError on an empty population
SampleDraw ==
    /\ pc = "draw"
    /\ i < n
    /\ IF DOMAIN corpus = {}
       THEN /\ err' = "IndexError"
            /\ pc' = "raised"
            /\ UNCHANGED <<prob, sample_dist, i>>
       ELSE /\ \E current_page \in choices(prob) :
                /\ sample_dist' =
                     [sample_dist EXCEPT ![current_page] = @ + 1]
                /\ prob' = transition_model(corpus, current_page,
                                            damping_factor)
            /\ i' = i + 1
            /\ UNCHANGED <<pc, err>>
    /\ UNCHANGED <<corpus, inputVars, iterVars, result>>

\* SampleNormalize dividing by the number of pages instead of n
SampleNormalize_by_pages ==
    /\ pc = "draw"
    /\ i = n
    /\ sample_dist' = [k \in DOMAIN sample_dist |->
                          RDiv(Q(sample_dist[k]),
                               Q(Cardinality(DOMAIN corpus)))]
    /\ result' = sample_dist'
    /\ pc' = "returned"
    /\ UNCHANGED <<corpus, inputVars, iterVars, prob, i, err>>

\* lines 99-102: divide every counter by n and return
SampleNormalize ==
    /\ pc = "draw"
    /\ i = n
    /\ sample_dist' = [k \in DOMAIN sample_dist |->
                          RDiv(Q(sample_dist[k]), Q(n))]
    /\ result' = sample_dist'
    /\ pc' = "returned"
    /\ UNCHANGED <<corpus, inputVars, iterVars, prob, i, err>>

-----------------------------------------------------------------------------
(* iterate_pagerank *)

\* sum_pri of the naive recurrence, which ignores pages without links
sum_pri_links_only(c, r, pg) ==
    LET term(k) ==
            IF pg \in c[k]
            THEN RDiv(r[k], Q(Cardinality(c[k])))
            ELSE Zero
    IN  RSum([k \in DOMAIN c |-> term(k)])

\* lines 128-134: the inner loop over i, reading the ranks r
sum_pri(c, r, pg) ==
    LET total_pages == Cardinality(DOMAIN c)
        term(k) ==
            IF Cardinality(c[k]) = 0
            THEN RDiv(r[k], Q(total_pages))
            ELSE IF pg \in c[k]
                 THEN RDiv(r[k], Q(Cardinality(c[k])))
                 ELSE Zero
    IN  RSum([k \in DOMAIN c |-> term(k)])

\* line 136
new_rank(c, r, pg, d) ==
    RAdd(RDiv(RSub(One, d), Q(Cardinality(DOMAIN c))),
         RMul(d, sum_pri(c, r, pg)))

\* IterInit that gives every page without links a link to every page, in
\* the corpus itself
IterInit_fill_dangling ==
    /\ call = "iterate_pagerank"
    /\ pc = "start"
    /\ corpus' = [k \in DOMAIN corpus |->
                    IF corpus[k] = {} THEN DOMAIN corpus ELSE corpus[k]]
    /\ LET total_pages == Cardinality(DOMAIN corpus)
       IN  /\ prev_prob' = [k \in DOMAIN corpus |-> Q(-1)]
           /\ new_prob' = [k \in DOMAIN corpus |-> RDiv(One, Q(total_pages))]
    /\ max_diff' = InitialMaxDiff
    /\ pc' = "while"
    /\ UNCHANGED <<inputVars, sampleVars, p, result, err>>

\* lines 115-122
IterInit ==
    /\ call = "iterate_pagerank"
    /\ pc = "start"
    /\ LET total_pages == Cardinality(DOMAIN corpus)
       IN  /\ prev_prob' = [k \in DOMAIN corpus |-> Q(-1)]
           /\ new_prob' = [k \in DOMAIN corpus |-> RDiv(One, Q(total_pages))]
    /\ max_diff' = InitialMaxDiff
    /\ pc' = "while"
    /\ UNCHANGED <<corpus, inputVars, sampleVars, p, result, err>>

\* IterSnapshot without the copy of new_prob
IterSnapshot_no_copy ==
    /\ pc = "while"
    /\ RLt(Threshold, max_diff)
    /\ prev_prob' = prev_prob
    /\ max_diff' = Zero
    /\ p' = 1
    /\ pc' = IF DOMAIN corpus = {} THEN "while" ELSE "for"
    /\ UNCHANGED <<corpus, inputVars, sampleVars, new_prob, result, err>>

\* lines 124-127: the loop test succeeds, the pass starts
IterSnapshot ==
    /\ pc = "while"
    /\ RLt(Threshold, max_diff)
    /\ prev_prob' = new_prob
    /\ max_diff' = Zero
    /\ p' = 1
    /\ pc' = IF DOMAIN corpus = {} THEN "while" ELSE "for"
    /\ UNCHANGED <<corpus, inputVars, sampleVars, new_prob, result, err>>

\* IterPage reading the ranks it is rewriting instead of the snapshot
IterPage_in_place ==
    /\ pc = "for"
    /\ \E rank \in {new_rank(corpus, new_prob, p, damping_factor)} :
           /\ new_prob' = [new_prob EXCEPT ![p] = rank]
           /\ max_diff' = RMax(max_diff, RAbs(RSub(rank, prev_prob[p])))
    /\ p' = p + 1
    /\ pc' = IF p = Cardinality(DOMAIN corpus) THEN "while" ELSE "for"
    /\ UNCHANGED <<corpus, inputVars, sampleVars, prev_prob, result, err>>

\* lines 127-138: the body of the for loop for page p
IterPage ==
    /\ pc = "for"
    /\ \E rank \in {new_rank(corpus, prev_prob, p, damping_factor)} :
           /\ new_prob' = [new_prob EXCEPT ![p] = rank]
           /\ max_diff' = RMax(max_diff, RAbs(RSub(rank, prev_prob[p])))
    /\ p' = p + 1
    /\ pc' = IF p = Cardinality(DOMAIN corpus) THEN "while" ELSE "for"
    /\ UNCHANGED <<corpus, inputVars, sampleVars, prev_prob, result, err>>

\* lines 124, 140: the loop test fails, new_prob is returned
IterReturn ==
    /\ pc = "while"
    /\ ~RLt(Threshold, max_diff)
    /\ result' = new_prob
    /\ pc' = "returned"
    /\ UNCHANGED <<corpus, inputVars, sampleVars, iterVars, err>>

-----------------------------------------------------------------------------

Next ==
    \/ TransitionModel
    \/ SampleInit
    \/ SampleDraw
    \/ SampleNormalize
    \/ IterInit
    \/ IterSnapshot
    \/ IterPage
    \/ IterReturn

Spec == Init /\ [][Next]_vars

SpecAny == InitAny /\ [][Next]_vars

\* one call of iterate_pagerank, which runs to its end: the program is
\* single-threaded and nothing suspends it
IterCallInit == Init /\ call = "iterate_pagerank"

IterNext ==
    \/ IterInit
    \/ IterSnapshot
    \/ IterPage
    \/ IterReturn

IterSpec == IterCallInit /\ [][IterNext]_vars /\ WF_vars(IterNext)

-----------------------------------------------------------------------------
(* Properties. *)

NumPages == Cardinality(DOMAIN corpus)

Dangling == {k \in DOMAIN corpus : corpus[k] = {}}

Uniform == [k \in DOMAIN corpus |-> Rat(1, NumPages)]

\* C1: the distribution returned by transition_model has exactly one entry
\* per page of the corpus and its values sum to exactly 1, both when it is
\* called directly and when sample_pagerank calls it after a draw.
TransitionSumsToOne ==
    /\ (call = "transition_model" /\ pc = "returned") =>
          /\ DOMAIN result = DOMAIN corpus
          /\ RSum(result) = One
    /\ (call = "sample_pagerank" /\ pc = "draw" /\ i > 0) =>
          /\ DOMAIN prob = DOMAIN corpus
          /\ RSum(prob) = One

TransitionSumsToOneWitness ==
    /\ call = "transition_model"
    /\ pc = "returned"
    /\ NumPages = 3
    /\ Cardinality(corpus[page]) = 1
    /\ damping_factor = DAMPING

\* the transition operator of the design: 1/N from a page without links,
\* otherwise (1-d)/N for every page plus d/L for the linked ones
ReferenceTransition(q) ==
    IF corpus[page] = {}
    THEN Rat(1, NumPages)
    ELSE RAdd(RMul(RSub(One, damping_factor), Rat(1, NumPages)),
              IF q \in corpus[page]
              THEN RMul(damping_factor, Rat(1, Cardinality(corpus[page])))
              ELSE Zero)

\* C2: transition_model returns the reference transition operator for every
\* page q; in particular the corpus {A: {}, B: {A}} with damping 0.85 gives
\* {A: 1/2, B: 1/2} from A.
TransitionMatchesReference ==
    (call = "transition_model" /\ pc = "returned") =>
        /\ \A q \in DOMAIN corpus : result[q] = ReferenceTransition(q)
        /\ (/\ corpus = [k \in 1..2 |-> IF k = 2 THEN {1} ELSE {}]
            /\ page = 1
            /\ damping_factor = <<17, 20>>)
           => result = [k \in 1..2 |-> <<1, 2>>]

TransitionDanglingWitness ==
    /\ call = "transition_model"
    /\ pc = "returned"
    /\ corpus = [k \in 1..2 |-> IF k = 2 THEN {1} ELSE {}]
    /\ page = 1
    /\ damping_factor = <<17, 20>>
    /\ result = [k \in 1..2 |-> <<1, 2>>]

\* C3: in sample_pagerank the visit counters sum to the number of draws made
\* so far, and the returned distribution has one entry per page, every value
\* in [0, 1], and sums to exactly 1.
SampleCountsPartitionDraws ==
    call = "sample_pagerank" =>
        /\ pc = "draw" =>
              /\ DOMAIN sample_dist = DOMAIN corpus
              /\ i <= n
              /\ RSum([k \in DOMAIN sample_dist |-> Q(sample_dist[k])]) = Q(i)
        /\ pc = "returned" =>
              /\ i = n
              /\ DOMAIN result = DOMAIN corpus
              /\ \A k \in DOMAIN result :
                    RLe(Zero, result[k]) /\ RLe(result[k], One)
              /\ RSum(result) = One

SampleTwoPagesWitness ==
    /\ call = "sample_pagerank"
    /\ pc = "returned"
    /\ n > 1
    /\ \E k \in DOMAIN result : result[k] # Zero /\ result[k] # One

\* C4: in iterate_pagerank the ranks sum to exactly 1 after initialization,
\* after every completed pass of the while loop, and in the returned
\* distribution, also for corpora with pages without links.
IterateRanksSumToOne ==
    call = "iterate_pagerank" =>
        /\ pc = "while" =>
              /\ DOMAIN new_prob = DOMAIN corpus
              /\ RSum(new_prob) = One
        /\ pc = "returned" =>
              /\ DOMAIN result = DOMAIN corpus
              /\ RSum(result) = One

IterateDanglingWitness ==
    /\ call = "iterate_pagerank"
    /\ pc = "returned"
    /\ Dangling # {}
    /\ result # Uniform

\* C5: every call of iterate_pagerank eventually returns, after a pass whose
\* largest per-page change is at most 0.001.
\* max_diff <= 1/1000
Converged == max_diff[1] <= max_diff[2] \div 1000

IterateTerminates ==
    (call = "iterate_pagerank" /\ pc = "start")
        ~> (pc = "returned" /\ Converged)

IterateSeveralPassesWitness ==
    /\ call = "iterate_pagerank"
    /\ pc = "returned"
    /\ prev_prob # Uniform
    /\ RLe(max_diff, Threshold)

InUnitInterval(d) == RLt(Zero, d) /\ RLt(d, One)

Ended == pc \in {"returned", "raised"}

\* C6: called with an empty corpus (and a valid damping factor), every
\* function ends by raising an error; none returns a result and none
\* divides by zero.
EmptyCorpusFails ==
    (DOMAIN corpus = {} /\ InUnitInterval(damping_factor) /\ Ended) =>
        /\ pc = "raised"
        /\ err # "ZeroDivisionError"

\* C7: called with a damping factor outside the open interval (0, 1) (on a
\* non-empty corpus), every function ends by raising an error instead of
\* returning a distribution.
InvalidDampingFails ==
    (DOMAIN corpus # {} /\ ~InUnitInterval(damping_factor) /\ Ended) =>
        pc = "raised"

\* C8: for the corpus of the single page A without links, iterate_pagerank
\* and sample_pagerank return {A: 1}, for every damping factor, every n and
\* every outcome of the draws.
SinglePageRankIsOne ==
    (/\ call \in {"sample_pagerank", "iterate_pagerank"}
     /\ pc = "returned"
     /\ DOMAIN corpus = {1})
    => result = [k \in {1} |-> <<1, 1>>]

SinglePageWitness ==
    /\ call = "iterate_pagerank"
    /\ pc = "returned"
    /\ DOMAIN corpus = {1}
    /\ corpus[1] = {}

\* C9: no step of transition_model, sample_pagerank or iterate_pagerank
\* changes the corpus: its pages and their link sets stay what they were.
CorpusNeverMutated == [][corpus' = corpus]_vars

CorpusAfterCallWitness ==
    /\ call = "sample_pagerank"
    /\ pc = "returned"
    /\ NumPages = 3
    /\ prob # Uniform

\* the rank of page q that one pass computes from the ranks r: the
\* random-jump term, the share of every page linking to q, and the uniform
\* share of every page without links
ReferenceRank(r, q) ==
    LET linking == {k \in DOMAIN corpus : q \in corpus[k]}
        shares == [k \in DOMAIN corpus |->
                     IF k \in linking
                     THEN RMul(r[k], Rat(1, Cardinality(corpus[k])))
                     ELSE IF k \in Dangling
                          THEN RMul(r[k], Rat(1, NumPages))
                          ELSE Zero]
    IN  RAdd(RMul(RSub(One, damping_factor), Rat(1, NumPages)),
             RMul(damping_factor, RSum(shares)))

RECURSIVE LargestChange(_)
LargestChange(S) ==
    IF S = {} THEN Zero
    ELSE LET k == CHOOSE k \in S : TRUE
             rest == LargestChange(S \ {k})
             diff == RAbs(RSub(new_prob[k], prev_prob[k]))
         IN  IF RLt(rest, diff) THEN diff ELSE rest

PassStarted == \A k \in DOMAIN corpus : prev_prob[k] # Q(-1)

IteratePassInv ==
    /\ pc = "returned" => PassStarted
    /\ pc = "for" =>
          \A k \in DOMAIN corpus :
              new_prob[k] = IF k < p THEN ReferenceRank(prev_prob, k)
                                     ELSE prev_prob[k]
    /\ (pc \in {"while", "returned"} /\ PassStarted) =>
          /\ \A k \in DOMAIN corpus :
                new_prob[k] = ReferenceRank(prev_prob, k)
          /\ max_diff = LargestChange(DOMAIN corpus)
    /\ pc = "returned" => (RLe(max_diff, Threshold) /\ result = new_prob)

IterateLoopStep ==
    /\ (pc = "while" /\ PassStarted /\ RLt(Threshold, max_diff)) =>
          (pc' = "for" /\ prev_prob' = new_prob)
    /\ (pc = "while" /\ PassStarted /\ RLe(max_diff, Threshold)) =>
          pc' = "returned"
    /\ (pc = "while" /\ ~PassStarted) => pc' = "for"

\* C10: iterate_pagerank makes at least one full pass before it returns,
\* every pass computes each new rank from the snapshot of the previous ranks
\* only, and it returns exactly after the first pass whose largest absolute
\* change is <= 0.001, making another pass whenever the change is larger.
IterateLoopContract == []IteratePassInv /\ [][IterateLoopStep]_vars

IterateAnotherPassWitness ==
    /\ pc = "for"
    /\ p = 3
    /\ new_prob[1] # Uniform[1]
    /\ prev_prob # Uniform

====
